---- MODULE Spec2Model ----
(***************************************************************************)
(* Model of gwpy/toolkits/dataviewer/buffer.py: BufferCore, a read-through *)
(* cache of per-channel time-series chunks.                                *)
(*                                                                         *)
(* Time is the axis 0..MaxT; the cell t stands for the half-open interval  *)
(* [t, t+1).  A segment list (gwpy SegmentList) is the set of cells it     *)
(* covers, its segments are the maximal runs of that set.  A chunk is a    *)
(* record [lo, hi] for the span [lo, hi) of one series; a per-channel      *)
(* series container is a sequence of chunks.  The sample spacing of every  *)
(* chunk is Dt.                                                            *)
(*                                                                         *)
(* The program is single threaded: one caller makes a call, sees its       *)
(* outcome (op, err, ret, calls, warned) and then makes the next call.     *)
(***************************************************************************)
EXTENDS Integers, Sequences, FiniteSets, TLC

\* ---- bounds -------------------------------------------------------------
MaxT == 3          \* the time axis is [0, MaxT)
MaxChunks == 2     \* chunks the buffer may hold when append() is called directly
MaxFailAt == 2     \* a fetcher may fail on its 1st..MaxFailAt-th call of a get

Dt == 1            \* sample spacing of every chunk (ts.dt.value)

Names == {"X", "Y"}

VARIABLES
    channels,   \* self.channels: sequence of channel names, in insertion order
    data,       \* self.data: function from the keys it holds to a chunk sequence
    ctorArg,    \* how __init__ was given its channels: "name" (one str) or "list"
    fetcher,    \* "base": fetch not overridden; "sub": a subclass supplies fetch
    op,         \* the call whose outcome the caller is looking at
    err,        \* the exception that call raised, "none" if it returned
    ret,        \* the value that call returned
    calls,      \* the fetch calls that call made, in order
    warned,     \* whether that call issued a warning
    before      \* self.channels and self.data when that call was made

vars == <<channels, data, ctorArg, fetcher, op, err, ret, calls, warned, before>>

\* ---- segment algebra (gwpy.segments) -------------------------------------
Cells == 0 .. (MaxT - 1)

Max(a, b) == IF a >= b THEN a ELSE b
Min(a, b) == IF a <= b THEN a ELSE b

Chunk(lo, hi) == [lo |-> lo, hi |-> hi]

ChunkCells(c) == c.lo .. (c.hi - 1)

\* the cells covered by a chunk sequence: TimeSeriesList.segments
SeriesSegments(series) == UNION {ChunkCells(series[i]) : i \in DOMAIN series}

\* the end of the run of the cell set S that holds t
RECURSIVE EndOf(_, _)
EndOf(S, t) == IF t \in S THEN EndOf(S, t + 1) ELSE t

RECURSIVE RunsFrom(_, _)
RunsFrom(S, t) ==
    IF t > MaxT THEN <<>>
    ELSE IF t \in S
         THEN <<Chunk(t, EndOf(S, t))>> \o RunsFrom(S, EndOf(S, t))
         ELSE RunsFrom(S, t + 1)

\* iteration order of a SegmentList: its segments, the maximal runs of the
\* cell set, by ascending start
Runs(S) == RunsFrom(S, 0)

\* the span of a series container: first start to last end
Span(series) ==
    LET los == {series[i].lo : i \in DOMAIN series}
        his == {series[i].hi : i \in DOMAIN series}
    IN  Chunk(CHOOSE l \in los : \A m \in los : l <= m,
              CHOOSE h \in his : \A m \in his : h >= m)

SeqToSet(s) == {s[i] : i \in DOMAIN s}

\* ---- outcomes -------------------------------------------------------------
NoOp == [name |-> "none", segs |-> {}, doFetch |-> FALSE, names |-> <<>>, t |-> 0]
NoRet == [shape |-> "none", data |-> <<>>, segs |-> {}]
NoBefore == [channels |-> <<>>, data |-> <<>>]

\* ---- the fetcher ---------------------------------------------------------
\* How much more than the asked range a subclass fetcher returns: cells
\* added before the start and after the end, cut at the ends of the axis.
Pads == {<<0, 0>>, <<1, 0>>, <<0, 1>>}

\* the choices of a fetcher only matter in a call that may fetch from a
\* subclass fetcher
FetcherPads(doFetch) ==
    IF doFetch /\ fetcher = "sub" THEN Pads ELSE {<<0, 0>>}

FetcherFails(doFetch) ==
    IF doFetch /\ fetcher = "sub" THEN 0 .. MaxFailAt ELSE {0}

\* BufferCore.fetch(self, segments, **kwargs) called with nargs positional
\* arguments: the stub takes exactly one, so a call with channels, start and
\* end does not bind and raises TypeError before the body runs.
BaseFetch(nargs) ==
    IF nargs = 1 THEN "NotImplementedError" ELSE "TypeError"

\* self.fetch(chans, lo, hi): the error raised and the data returned.  A
\* subclass fetcher returns, for every channel asked for, one chunk covering
\* at least [lo, hi), or fails when fails is TRUE.
fetch(chans, lo, hi, pad, fails) ==
    IF fetcher = "base" THEN [err |-> BaseFetch(3), data |-> <<>>]
    ELSE IF fails THEN [err |-> "FetchError", data |-> <<>>]
    ELSE [err |-> "none",
          data |-> [c \in SeqToSet(chans) |->
                      <<Chunk(Max(0, lo - pad[1]), Min(MaxT, hi + pad[2]))>>]]

\* ---- append and coalesce ---------------------------------------------------
\* append that puts the new chunks in the place of the old ones
appendReplaces(d, new) ==
    [k \in (DOMAIN d) \cup (DOMAIN new) |->
        IF k \in DOMAIN new THEN new[k] ELSE d[k]]

\* self.data.append(new): a key the buffer holds gets the new chunks at the
\* end of its container, a key it does not hold gets a container of its own
append(d, new) ==
    [k \in (DOMAIN d) \cup (DOMAIN new) |->
        IF k \in DOMAIN d
        THEN (IF k \in DOMAIN new THEN d[k] \o new[k] ELSE d[k])
        ELSE new[k]]

\* coalesce that keeps the first chunk only
CoalesceKeepsFirst(series) ==
    IF series = <<>> THEN <<>> ELSE <<series[1]>>

\* series.coalesce(): sorted by start, overlapping and adjacent chunks merged
CoalesceSeries(series) == Runs(SeriesSegments(series))

coalesce(d) == [k \in DOMAIN d |-> CoalesceSeries(d[k])]

\* ---- get -------------------------------------------------------------------
\* available as the time some channel has data for
AvailableAnyChannel(d) ==
    {t \in Cells : \E i \in DOMAIN channels : t \in SeriesSegments(d[channels[i]])}

\* reduce(operator.and_, (self.data[c].segments for c in self.channels)),
\* for a non-empty channel list whose channels are all keys of d
Available(d) ==
    LET cov == [i \in DOMAIN channels |-> SeriesSegments(d[channels[i]])]
    IN  {t \in Cells : \A i \in DOMAIN channels : t \in cov[i]}

\* new = segments, the buffered data ignored
MissingIgnoresAvailable(segs, available) == segs

Missing(segs, available) == segs \ available

\* if abs(new), whatever fetch is
ShouldFetchIgnoresFlag(doFetch, new) == new # {}

\* if fetch and abs(new)
ShouldFetch(doFetch, new) == doFetch /\ new # {}

\* the fetch loop leaving after its first fetch
FetchLoopOnce(d, todo, k, cs, pad, failAt) ==
    IF k > Len(todo) THEN [data |-> d, calls |-> cs, err |-> "none"]
    ELSE LET seg == todo[k]
             cs2 == Append(cs, [chans |-> channels, lo |-> seg.lo, hi |-> seg.hi])
             r   == fetch(channels, seg.lo, seg.hi, pad, failAt = k)
         IN  IF r.err # "none"
             THEN [data |-> d, calls |-> cs2, err |-> r.err]
             ELSE [data |-> coalesce(append(d, r.data)), calls |-> cs2,
                   err |-> "none"]

\* the fetch loop appending what it fetched only when every fetch succeeded
RECURSIVE FetchLoopAllOrNothing(_, _, _, _, _, _)
FetchLoopAllOrNothing(d, todo, k, cs, pad, failAt) ==
    IF k > Len(todo) THEN [data |-> d, calls |-> cs, err |-> "none"]
    ELSE LET seg == todo[k]
             cs2 == Append(cs, [chans |-> channels, lo |-> seg.lo, hi |-> seg.hi])
             r   == fetch(channels, seg.lo, seg.hi, pad, failAt = k)
         IN  IF r.err # "none"
             THEN [data |-> data, calls |-> cs2, err |-> r.err]
             ELSE FetchLoopAllOrNothing(coalesce(append(d, r.data)), todo,
                                        k + 1, cs2, pad, failAt)

RECURSIVE FetchLoop(_, _, _, _, _, _)
FetchLoop(d, todo, k, cs, pad, failAt) ==
    IF k > Len(todo) THEN [data |-> d, calls |-> cs, err |-> "none"]
    ELSE LET seg == todo[k]
             cs2 == Append(cs, [chans |-> channels, lo |-> seg.lo, hi |-> seg.hi])
             r   == fetch(channels, seg.lo, seg.hi, pad, failAt = k)
         IN  IF r.err # "none"
             THEN [data |-> d, calls |-> cs2, err |-> r.err]
             ELSE FetchLoop(coalesce(append(d, r.data)), todo, k + 1, cs2,
                            pad, failAt)

\* crop that returns the whole chunk
CropWhole(ts, seg) == ts

\* ts.crop(seg[0], seg[1]) of a chunk that intersects seg
Crop(ts, seg) == Chunk(Max(ts.lo, seg.lo), Min(ts.hi, seg.hi))

Intersects(ts, seg) == ts.lo < seg.hi /\ seg.lo < ts.hi

\* the pieces of one chunk cut out by the requested segments, in their order
RECURSIVE CropChunk(_, _, _)
CropChunk(ts, segList, j) ==
    IF j > Len(segList) THEN <<>>
    ELSE LET seg  == segList[j]
             rest == CropChunk(ts, segList, j + 1)
         IN  IF (seg.hi - seg.lo) < Dt THEN rest
             ELSE IF Intersects(ts, seg)
                  THEN (IF Crop(ts, seg).hi > Crop(ts, seg).lo
                        THEN <<Crop(ts, seg)>> \o rest ELSE rest)
                  ELSE rest

RECURSIVE CropSeries(_, _, _)
CropSeries(series, segList, i) ==
    IF i > Len(series) THEN <<>>
    ELSE CropChunk(series[i], segList, 1) \o CropSeries(series, segList, i + 1)

\* isinstance(channel, str) for the loop variable channel, an element of
\* self.channels: ChannelList.from_names builds Channel objects, not strings
ChannelIsStr == FALSE

\* the end of get: the cropped series of every channel, returned as a
\* mapping unless isinstance(channel, str) holds, and then len(channels)
\* reads a name that is not bound in get
GetReturn(d, segs) ==
    LET out == [c \in SeqToSet(channels) |->
                  CoalesceSeries(CropSeries(d[c], Runs(segs), 1))]
    IN  IF ChannelIsStr
        THEN [err |-> "NameError", ret |-> NoRet]
        ELSE [err |-> "none",
              ret |-> [shape |-> "mapping", data |-> out, segs |-> {}]]

\* get(segments, fetch) with segments a segment list
get(segs, doFetch, pad, failAt) ==
    IF Len(channels) = 0
    THEN [data |-> data, calls |-> <<>>, err |-> "TypeError", ret |-> NoRet]
    ELSE IF \E i \in DOMAIN channels : channels[i] \notin DOMAIN data
    THEN [data |-> data, calls |-> <<>>, err |-> "KeyError", ret |-> NoRet]
    ELSE LET available == Available(data)
             new  == Missing(segs, available)
             todo == IF ShouldFetch(doFetch, new) THEN Runs(new) ELSE <<>>
             f    == FetchLoop(data, todo, 1, <<>>, pad, failAt)
         IN  IF f.err # "none"
             THEN [data |-> f.data, calls |-> f.calls, err |-> f.err,
                   ret |-> NoRet]
             ELSE LET g == GetReturn(f.data, segs)
                  IN  [data |-> f.data, calls |-> f.calls,
                       err |-> g.err, ret |-> g.ret]

\* get() with segments=None: the name channels is not bound in get
get_none == [err |-> "NameError", ret |-> NoRet]

\* ---- derived properties ------------------------------------------------------
\* the segments property: the union of every container's span; reduce() of
\* no containers raises TypeError, which is caught
\* segments with the TypeError of reduce() not caught
segmentsUncaught(d) ==
    IF DOMAIN d = {} THEN [err |-> "TypeError", segs |-> {}]
    ELSE [err |-> "none",
          segs |-> UNION {ChunkCells(Span(d[k])) : k \in DOMAIN d}]

segments(d) ==
    IF DOMAIN d = {} THEN [err |-> "none", segs |-> {}]
    ELSE [err |-> "none",
          segs |-> UNION {ChunkCells(Span(d[k])) : k \in DOMAIN d}]

\* the extent property: Segment(*self.segments.extent()), the enclosing
\* segment of the derived segments; extent() of an empty list raises
extent(d) ==
    LET S == segments(d).segs
    IN  IF S = {} THEN [err |-> "ValueError", lo |-> 0, hi |-> 0]
        ELSE [err |-> "none",
              lo |-> CHOOSE l \in S : \A m \in S : l <= m,
              hi |-> (CHOOSE h \in S : \A m \in S : h >= m) + 1]

\* start and end: the second definition under each name replaces the first,
\* and property(f) has a getter only
start_property == [fget |-> "start(self, t)", fset |-> FALSE]
end_property == [fget |-> "end(self, t)", fset |-> FALSE]

\* buffer.<name> = t
SetAttr(prop) == IF prop.fset THEN "none" ELSE "AttributeError"

\* buffer.<name>: the getter is called with self alone, and the function
\* under the name takes self and t
GetAttr(prop) ==
    IF prop.fget \in {"start(self, t)", "end(self, t)"}
    THEN "TypeError" ELSE "none"

\* ---- add_channels -------------------------------------------------------------
\* the names of the call that are not in the channel list, each once
RECURSIVE NewChannels(_, _, _)
NewChannels(chs, names, i) ==
    IF i > Len(names) THEN <<>>
    ELSE IF names[i] \in SeqToSet(chs) THEN NewChannels(chs, names, i + 1)
    ELSE <<names[i]>> \o NewChannels(Append(chs, names[i]), names, i + 1)

\* for seg in self.segments: self.fetch(new, seg[0], seg[1]); the value
\* fetch returns is dropped
RECURSIVE BackfillLoop(_, _, _, _, _)
BackfillLoop(new, todo, k, cs, pad) ==
    IF k > Len(todo) THEN [calls |-> cs, err |-> "none"]
    ELSE LET seg == todo[k]
             cs2 == Append(cs, [chans |-> new, lo |-> seg.lo, hi |-> seg.hi])
             r   == fetch(new, seg.lo, seg.hi, pad, FALSE)
         IN  IF r.err # "none" THEN [calls |-> cs2, err |-> r.err]
             ELSE BackfillLoop(new, todo, k + 1, cs2, pad)

add_channels(names, pad) ==
    LET new == NewChannels(channels, names, 1)
        b   == BackfillLoop(new, Runs(segments(data).segs), 1, <<>>, pad)
    IN  [channels |-> channels \o new, calls |-> b.calls, err |-> b.err]

\* ---- the program ----------------------------------------------------------------
\* BufferCore(channels): a str is wrapped in a list; self.data is an empty
\* mapping
CtorArgs == {[kind |-> "name", names |-> <<"X">>],
             [kind |-> "list", names |-> <<"X">>],
             [kind |-> "list", names |-> <<"X", "Y">>],
             [kind |-> "list", names |-> <<"X", "X">>],
             [kind |-> "list", names |-> <<>>]}

Init ==
    /\ \E a \in CtorArgs : channels = a.names /\ ctorArg = a.kind
    /\ data = <<>>
    /\ fetcher \in {"base", "sub"}
    /\ op = NoOp
    /\ err = "none"
    /\ ret = NoRet
    /\ calls = <<>>
    /\ warned = FALSE
    /\ before = NoBefore

Idle == op.name = "none"

Get(segs, doFetch, pad, failAt) ==
    /\ Idle
    /\ \E r \in {get(segs, doFetch, pad, failAt)} :
           /\ data' = r.data
           /\ calls' = r.calls
           /\ err' = r.err
           /\ ret' = r.ret
    /\ op' = [NoOp EXCEPT !.name = "get", !.segs = segs, !.doFetch = doFetch]
    /\ warned' = FALSE
    /\ before' = [channels |-> channels, data |-> data]
    /\ UNCHANGED <<channels, ctorArg, fetcher>>

GetNone ==
    /\ Idle
    /\ err' = get_none.err
    /\ ret' = get_none.ret
    /\ op' = [NoOp EXCEPT !.name = "get_none"]
    /\ calls' = <<>>
    /\ warned' = FALSE
    /\ before' = [channels |-> channels, data |-> data]
    /\ UNCHANGED <<channels, data, ctorArg, fetcher>>

\* the chunks the buffer holds
NChunks(d) ==
    LET RECURSIVE Sum(_)
        Sum(K) == IF K = {} THEN 0
                  ELSE LET k == CHOOSE x \in K : TRUE
                       IN  Len(d[k]) + Sum(K \ {k})
    IN  Sum(DOMAIN d)

\* what append() may be given: one chunk for each key of a set of names
Spans == {c \in {Chunk(l, h) : l \in 0 .. MaxT, h \in 0 .. MaxT} : c.lo < c.hi}

AppendInputs ==
    UNION {[K -> {<<c>> : c \in Spans}] : K \in (SUBSET Names) \ {{}}}

AppendOp(new) ==
    /\ Idle
    /\ NChunks(data) + Cardinality(DOMAIN new) <= MaxChunks
    /\ data' = append(data, new)
    /\ op' = [NoOp EXCEPT !.name = "append"]
    /\ err' = "none"
    /\ ret' = NoRet
    /\ calls' = <<>>
    /\ warned' = FALSE
    /\ before' = [channels |-> channels, data |-> data]
    /\ UNCHANGED <<channels, ctorArg, fetcher>>

CoalesceOp ==
    /\ Idle
    /\ data' = coalesce(data)
    /\ op' = [NoOp EXCEPT !.name = "coalesce"]
    /\ err' = "none"
    /\ ret' = NoRet
    /\ calls' = <<>>
    /\ warned' = FALSE
    /\ before' = [channels |-> channels, data |-> data]
    /\ UNCHANGED <<channels, ctorArg, fetcher>>

ReadSegments ==
    /\ Idle
    /\ err' = segments(data).err
    /\ ret' = IF segments(data).err = "none"
              THEN [shape |-> "segments", data |-> <<>>,
                    segs |-> segments(data).segs]
              ELSE NoRet
    /\ op' = [NoOp EXCEPT !.name = "segments"]
    /\ calls' = <<>>
    /\ warned' = FALSE
    /\ before' = [channels |-> channels, data |-> data]
    /\ UNCHANGED <<channels, data, ctorArg, fetcher>>

ReadExtent ==
    /\ Idle
    /\ err' = extent(data).err
    /\ ret' = IF extent(data).err = "none"
              THEN [shape |-> "segment", data |-> <<>>,
                    segs |-> extent(data).lo .. (extent(data).hi - 1)]
              ELSE NoRet
    /\ op' = [NoOp EXCEPT !.name = "extent"]
    /\ calls' = <<>>
    /\ warned' = FALSE
    /\ before' = [channels |-> channels, data |-> data]
    /\ UNCHANGED <<channels, data, ctorArg, fetcher>>

ReadStart ==
    /\ Idle
    /\ err' = GetAttr(start_property)
    /\ ret' = NoRet
    /\ op' = [NoOp EXCEPT !.name = "start"]
    /\ calls' = <<>>
    /\ warned' = FALSE
    /\ before' = [channels |-> channels, data |-> data]
    /\ UNCHANGED <<channels, data, ctorArg, fetcher>>

ReadEnd ==
    /\ Idle
    /\ err' = GetAttr(end_property)
    /\ ret' = NoRet
    /\ op' = [NoOp EXCEPT !.name = "end"]
    /\ calls' = <<>>
    /\ warned' = FALSE
    /\ before' = [channels |-> channels, data |-> data]
    /\ UNCHANGED <<channels, data, ctorArg, fetcher>>

SetStart(t) ==
    /\ Idle
    /\ err' = SetAttr(start_property)
    /\ ret' = NoRet
    /\ op' = [NoOp EXCEPT !.name = "set_start", !.t = t]
    /\ calls' = <<>>
    /\ warned' = FALSE
    /\ before' = [channels |-> channels, data |-> data]
    /\ UNCHANGED <<channels, data, ctorArg, fetcher>>

SetEnd(t) ==
    /\ Idle
    /\ err' = SetAttr(end_property)
    /\ ret' = NoRet
    /\ op' = [NoOp EXCEPT !.name = "set_end", !.t = t]
    /\ calls' = <<>>
    /\ warned' = FALSE
    /\ before' = [channels |-> channels, data |-> data]
    /\ UNCHANGED <<channels, data, ctorArg, fetcher>>

AddInputs == {<<a>> : a \in Names} \cup {<<a, b>> : a \in Names, b \in Names}

AddChannels(names, pad) ==
    /\ Idle
    /\ \E r \in {add_channels(names, pad)} :
           /\ channels' = r.channels
           /\ calls' = r.calls
           /\ err' = r.err
    /\ ret' = NoRet
    /\ op' = [NoOp EXCEPT !.name = "add_channels", !.names = names]
    /\ warned' = FALSE
    /\ before' = [channels |-> channels, data |-> data]
    /\ UNCHANGED <<data, ctorArg, fetcher>>

\* the caller is done with the outcome of its call
Return ==
    /\ ~Idle
    /\ op' = NoOp
    /\ err' = "none"
    /\ ret' = NoRet
    /\ calls' = <<>>
    /\ warned' = FALSE
    /\ before' = NoBefore
    /\ UNCHANGED <<channels, data, ctorArg, fetcher>>

Next ==
    \/ \E segs \in SUBSET Cells, doFetch \in BOOLEAN :
          \E pad \in FetcherPads(doFetch), failAt \in FetcherFails(doFetch) :
              Get(segs, doFetch, pad, failAt)
    \/ GetNone
    \/ \E new \in AppendInputs : AppendOp(new)
    \/ CoalesceOp
    \/ ReadSegments
    \/ ReadExtent
    \/ ReadStart
    \/ ReadEnd
    \/ \E t \in 0 .. MaxT : SetStart(t)
    \/ \E t \in 0 .. MaxT : SetEnd(t)
    \/ \E names \in AddInputs,
          pad \in FetcherPads(TRUE) :
          AddChannels(names, pad)
    \/ Return

Spec == Init /\ [][Next]_vars

\* a buffer built from a list of one or two distinct names, of a subclass
\* that supplies fetch
InitSub ==
    /\ Init
    /\ channels \in {<<"X">>, <<"X", "Y">>}
    /\ ctorArg = "list"
    /\ fetcher = "sub"

SpecSub == InitSub /\ [][Next]_vars

\* ---- properties -------------------------------------------------------------------
\* every channel of the channel list has a container, so that available
\* can be computed
AvailDefined ==
    /\ Len(channels) > 0
    /\ \A i \in DOMAIN channels : channels[i] \in DOMAIN data

\* the time a channel has buffered data for
CoveredBy(d, c) == IF c \in DOMAIN d THEN SeriesSegments(d[c]) ELSE {}

\* the buffer has channels and its extent is defined
HasExtent == Len(channels) > 0 /\ extent(data).err = "none"

\* C1: a get(segments, fetch=true) whose requested intervals every channel
\* already has buffered data for returns without a single fetch call, and
\* leaves the buffered data as it was.
C1_NoFetchWhenSatisfied ==
    [][(/\ op'.name = "get"
        /\ op'.doFetch
        /\ AvailDefined
        /\ op'.segs \subseteq Available(data))
       => (calls' = <<>> /\ err' = "none" /\ data' = data)]_vars

C1_Witness ==
    /\ op.name = "get"
    /\ op.doFetch
    /\ fetcher = "sub"
    /\ op.segs # {}
    /\ AvailDefined
    /\ op.segs \subseteq Available(data)
    /\ calls = <<>>
    /\ err = "none"
    /\ ret.shape = "mapping"

\* C2: after get(segments, fetch=true) on any buffer, a freshly constructed
\* one included, with a fetcher that returns data for at least each range it
\* is asked for, the derived segments contain the requested segments.
C2_CoverageAfterGet ==
    [][(/\ op'.name = "get"
        /\ op'.doFetch
        /\ Len(channels) > 0
        /\ fetcher = "sub"
        /\ err' # "FetchError")
       => op'.segs \subseteq segments(data').segs]_vars

\* C3: get() without segments returns the content buffered for each channel,
\* raises nothing, makes no fetch call and leaves the buffer unchanged.
C3_GetNoneReturnsBuffered ==
    [][(op'.name = "get_none" /\ AvailDefined)
       => (/\ err' = "none"
           /\ ret'.shape # "none"
           /\ \A i \in DOMAIN channels :
                /\ channels[i] \in DOMAIN data
                /\ channels[i] \in DOMAIN ret'.data
                /\ ret'.data[channels[i]] = data[channels[i]]
           /\ calls' = <<>>
           /\ data' = data
           /\ channels' = channels)]_vars

\* one fetch call for each interval of the derived segments of d, for chans
RECURSIVE CallsFor(_, _, _)
CallsFor(chans, todo, k) ==
    IF k > Len(todo) THEN <<>>
    ELSE <<[chans |-> chans, lo |-> todo[k].lo, hi |-> todo[k].hi]>>
         \o CallsFor(chans, todo, k + 1)

\* C4: add_channels with a channel that is new to a buffer whose channels
\* cover some time makes one fetch call for each interval of the derived
\* segments, for the new channels only, and afterwards every new channel has
\* buffered data for the time the existing channels covered.
C4_AddChannelsBackfill ==
    [][(/\ op'.name = "add_channels"
        /\ fetcher = "sub"
        /\ AvailDefined
        /\ Available(data) # {}
        /\ NewChannels(channels, op'.names, 1) # <<>>)
       => (/\ err' = "none"
           /\ calls' = CallsFor(NewChannels(channels, op'.names, 1),
                                Runs(segments(data).segs), 1)
           /\ \A n \in SeqToSet(NewChannels(channels, op'.names, 1)) :
                Available(data) \subseteq CoveredBy(data', n))]_vars

\* C5: on a buffer with extent [s, e), extending end to t > e makes exactly
\* one fetch call, for all channels and [e, t), and afterwards end is t;
\* extending start to t < s makes exactly one fetch call for [t, s) and
\* afterwards start is t.
C5_ValidExtension ==
    [][/\ (/\ op'.name = "set_end"
           /\ fetcher = "sub"
           /\ HasExtent
           /\ op'.t > extent(data).hi)
          => (/\ err' = "none"
              /\ calls' = <<[chans |-> channels, lo |-> extent(data).hi,
                             hi |-> op'.t]>>
              /\ extent(data').hi = op'.t)
       /\ (/\ op'.name = "set_start"
           /\ fetcher = "sub"
           /\ HasExtent
           /\ op'.t < extent(data).lo)
          => (/\ err' = "none"
              /\ calls' = <<[chans |-> channels, lo |-> op'.t,
                             hi |-> extent(data).lo]>>
              /\ extent(data').lo = op'.t)]_vars

\* C6: on a buffer with extent [s, e), extending start to t >= e or end to
\* t <= s raises the ordering error (ValueError), makes no fetch call and
\* leaves the channels and the buffered data unchanged.
C6_InvalidExtension ==
    [][(/\ HasExtent
        /\ \/ op'.name = "set_start" /\ op'.t >= extent(data).hi
           \/ op'.name = "set_end" /\ op'.t <= extent(data).lo)
       => (/\ err' = "ValueError"
           /\ calls' = <<>>
           /\ data' = data
           /\ channels' = channels)]_vars

\* C7: on a buffer with extent [s, e), extending end to t with s < t <= e or
\* start to t with s <= t < e raises nothing, issues a warning, makes no
\* fetch call and leaves the buffer unchanged.
C7_RedundantExtension ==
    [][(/\ HasExtent
        /\ \/ /\ op'.name = "set_end"
              /\ extent(data).lo < op'.t
              /\ op'.t <= extent(data).hi
           \/ /\ op'.name = "set_start"
              /\ extent(data).lo <= op'.t
              /\ op'.t < extent(data).hi)
       => (/\ err' = "none"
           /\ warned'
           /\ calls' = <<>>
           /\ data' = data
           /\ channels' = channels)]_vars

\* C8: a get with segments that returns gives the bare series container when
\* the buffer was built from one channel name given as a single name, and a
\* mapping when it was built from a list.
C8_SingleChannelUnwrap ==
    (op.name = "get" /\ err = "none")
    => (ret.shape = IF ctorArg = "name" /\ Len(channels) = 1
                    THEN "bare" ELSE "mapping")

\* C9: on a buffer whose fetch is not overridden, a call that reaches the
\* fetch step ends with the NotImplementedError of the base fetch.
C9_UnimplementedFetch ==
    (fetcher = "base" /\ calls # <<>>) => err = "NotImplementedError"

\* C10: reading the segments property of a buffer that has channels and no
\* data returns the empty segment list and raises nothing.
C10_EmptyBufferSegments ==
    (op.name = "segments" /\ Len(channels) > 0 /\ DOMAIN data = {})
    => (err = "none" /\ ret.shape = "segments" /\ ret.segs = {})

C10_Witness ==
    /\ op.name = "segments"
    /\ Len(channels) > 0
    /\ DOMAIN data = {}
    /\ err = "none"
    /\ ret.shape = "segments"
    /\ ret.segs = {}

\* C11: on a buffer with channels and no data, reading extent, start or end
\* raises nothing.
C11_EmptyBufferExtent ==
    (op.name \in {"extent", "start", "end"} /\ Len(channels) > 0
        /\ DOMAIN data = {})
    => err = "none"

\* C12: the channel list holds every channel at most once.
C12_NoDuplicateChannels ==
    \A i \in DOMAIN channels : \A j \in DOMAIN channels :
        channels[i] = channels[j] => i = j

\* C13: coalesce leaves a buffer that a second coalesce does not change, and
\* changes neither the channels nor the time a container covers.
C13_IdempotentCoalesce ==
    (op.name = "coalesce")
    => (/\ coalesce(data) = data
        /\ channels = before.channels
        /\ DOMAIN data = DOMAIN before.data
        /\ \A k \in DOMAIN data :
             SeriesSegments(data[k]) = SeriesSegments(before.data[k]))

C13_Witness ==
    /\ op.name = "coalesce"
    /\ \E k \in DOMAIN data : Len(data[k]) < Len(before.data[k])
    /\ coalesce(data) = data

\* the buffer the call was made on had a container for every channel
BeforeAvailDefined ==
    /\ Len(before.channels) > 0
    /\ \A i \in DOMAIN before.channels :
         before.channels[i] \in DOMAIN before.data

\* the time every channel had data for when the call was made
BeforeAvailable ==
    {t \in Cells : \A i \in DOMAIN before.channels :
        t \in SeriesSegments(before.data[before.channels[i]])}

C15_ConservativeAvailability ==
    (/\ op.name = "get"
     /\ op.doFetch
     /\ BeforeAvailDefined
     /\ err = "none")
    => \A t \in op.segs :
         (\E j \in DOMAIN channels : t \notin CoveredBy(before.data, channels[j]))
         <=> (\E i \in DOMAIN calls :
                /\ calls[i].lo <= t
                /\ t < calls[i].hi
                /\ calls[i].chans = channels)

C15_Witness ==
    /\ op.name = "get"
    /\ op.doFetch
    /\ err = "none"
    /\ BeforeAvailDefined
    /\ \E t \in op.segs :
         /\ t \in CoveredBy(before.data, "X")
         /\ t \notin CoveredBy(before.data, "Y")
         /\ \E i \in DOMAIN calls :
              /\ calls[i].lo <= t
              /\ t < calls[i].hi
              /\ calls[i].chans = <<"X", "Y">>

\* C16: when the fetcher fails in a get, the failure is the outcome of get,
\* the ranges of the fetch calls before the failing one are buffered for
\* every channel, and every container covers at least what it covered when
\* get was called.
C16_PartialCommit ==
    (op.name = "get" /\ err = "FetchError")
    => (/\ ret = NoRet
        /\ calls # <<>>
        /\ \A i \in 1 .. (Len(calls) - 1) : \A j \in DOMAIN channels :
             calls[i].lo .. (calls[i].hi - 1) \subseteq CoveredBy(data, channels[j])
        /\ \A k \in DOMAIN before.data :
             CoveredBy(before.data, k) \subseteq CoveredBy(data, k))

C16_Witness ==
    /\ op.name = "get"
    /\ err = "FetchError"
    /\ Len(calls) = 2
    /\ \E t \in calls[1].lo .. (calls[1].hi - 1) :
         /\ t \notin CoveredBy(before.data, "X")
         /\ t \in CoveredBy(data, "X")
    /\ before.data # <<>>

\* C17: the mapping of the buffer has a container for every channel of the
\* channel list.
C17_EveryChannelHasContainer ==
    \A i \in DOMAIN channels : channels[i] \in DOMAIN data

\* [lo, hi) is a maximal run of the cell set S
IsRun(S, lo, hi) ==
    /\ lo < hi
    /\ \A t \in lo .. (hi - 1) : t \in S
    /\ (lo - 1) \notin S
    /\ hi \notin S

RunSet(S) ==
    {c \in {Chunk(l, h) : l \in 0 .. MaxT, h \in 0 .. (MaxT + 1)} :
        IsRun(S, c.lo, c.hi)}

\* the requested intervals that are not shorter than the sample spacing
Croppable(segs) ==
    UNION {ChunkCells(c) : c \in {r \in RunSet(segs) : r.hi - r.lo >= Dt}}

C19_NoFetchReadOnly ==
    (op.name = "get" /\ ~op.doFetch)
    => (/\ calls = <<>>
        /\ data = before.data
        /\ channels = before.channels
        /\ err = "none" =>
             \A j \in DOMAIN channels :
                SeriesSegments(ret.data[channels[j]])
                    \subseteq (CoveredBy(before.data, channels[j]) \cap op.segs))

C19_Witness ==
    /\ op.name = "get"
    /\ ~op.doFetch
    /\ fetcher = "sub"
    /\ err = "none"
    /\ BeforeAvailDefined
    /\ op.segs \ BeforeAvailable # {}
    /\ op.segs \cap BeforeAvailable # {}
    /\ calls = <<>>
    /\ data = before.data

\* C20: no step takes a key out of the mapping, uncovers a time a container
\* covered, or takes a channel out of the channel list.
C20_CoverageNeverShrinks ==
    [][/\ \A k \in DOMAIN data :
            /\ k \in DOMAIN data'
            /\ SeriesSegments(data[k]) \subseteq SeriesSegments(data'[k])
       /\ SeqToSet(channels) \subseteq SeqToSet(channels')
       /\ Len(channels) <= Len(channels')
       /\ SubSeq(channels', 1, Len(channels)) = channels]_vars

C20_Witness ==
    /\ op.name = "get"
    /\ err = "none"
    /\ calls # <<>>
    /\ \E k \in DOMAIN before.data :
         /\ before.data[k] # <<>>
         /\ SeriesSegments(before.data[k]) # SeriesSegments(data[k])
         /\ SeriesSegments(before.data[k]) \subseteq SeriesSegments(data[k])

====
